---- MODULE Spec2Model ----
(***************************************************************************)
(* Verification model of the wallet core of shubertm/ts-sdk:               *)
(*   - Unroll.Session (next, the async iterator, doUnroll, doWait) and     *)
(*     the part of OnchainWallet.bumpP2A the session observes;             *)
(*   - selectCoins and OnchainWallet.estimateFeesAndSelectCoins with the   *)
(*     TxWeightEstimator arithmetic they use.                              *)
(* Assumptions on the environment: a transaction that entered the mempool  *)
(* is not evicted and a confirmed transaction is not reorganised away;     *)
(* COMMITMENT and UNSPECIFIED chain nodes are confirmed on-chain.          *)
(***************************************************************************)
EXTENDS Integers, Sequences, FiniteSets, TLC

\* ------------------------------------------------------------------------
\* Bounds of the model
\* ------------------------------------------------------------------------
MaxChain == 2

\* selectCoins: the longest coin list and the largest coin value drawn
MaxCoins == 3

MaxCoinValue == 3

\* the fee planner: the largest number of equal small coins in a wallet
MaxPlanCoins == 11

\* doWait: the interval ticks counted during one do() (the count saturates)
MaxTicks == 2

\* availableExitPath: the longest list of exit paths, the largest relative
\* timelock and the largest height / time of the chain tip
MaxExits == 2

MaxLock == 2

MaxTip == 3

\* completeUnroll: the largest number of VTXOs in the wallet
MaxVtxos == 2

\* the estimator: the largest number of add calls followed on one estimator
MaxOps == 3

\* ------------------------------------------------------------------------
\* Unroll.Session: data
\* ------------------------------------------------------------------------
ChainTxType == {"COMMITMENT", "TREE", "ARK", "CHECKPOINT", "UNSPECIFIED"}

StepType == {"UNROLL", "WAIT", "DONE"}

\* the absent value (undefined) of the iterator's lastStep
None == "undefined"

\* no step has been returned
NoStep == [type |-> "none", txid |-> 0]

\* the chains the indexer can answer with: node k has txid k, index 1 is the
\* leaf and the last index the root
ChainsOfLen(n) == { [k \in 1..n |-> [txid |-> k, type |-> f[k]]] : f \in [1..n -> ChainTxType] }

Chains == UNION { ChainsOfLen(n) : n \in 0..MaxChain }

\* the outpoint's own txid: the leaf's txid or a txid that is on no chain node
OutpointTxids == {1, MaxChain + 1}

VARIABLES
    toUnroll,   \* Session.toUnroll: [txid, chain], set by Session.create
    onchain,    \* the explorer's view of each chain node: offchain, mempool, confirmed
    pc,         \* position of the driving loop / of the running next() or do()
    i,          \* next(): the loop index (1-based; 0 when the scan is over)
    cand,       \* next(): nextTxToBroadcast (index of the node), 0 while undefined
    step,       \* the step next() returned, or NoStep
    lastStep,   \* the iterator's lastStep
    queried,    \* indices whose status next() asked for during the current call
    lastAns,    \* the answer of the last getTxStatus of the current call
    stable,     \* no status changed by another party since the current next() call started
    ev,         \* the observable effect of the last action
    resumed,    \* a session was abandoned and a new one created from the outpoint
    subm,       \* outcome of the package submission made inside bumpP2A
    doneYields, \* the current iterator has yielded DONE
    ticks,      \* doWait: ticks of the interval since the running do() started
    sel         \* coin selection / fee planning component (see below)

svars == <<toUnroll, onchain, pc, i, cand, step, lastStep, queried, lastAns,
           stable, ev, resumed, subm, doneYields, ticks>>

vars == <<toUnroll, onchain, pc, i, cand, step, lastStep, queried, lastAns,
          stable, ev, resumed, subm, doneYields, ticks, sel>>

\* the wallet operations are not being exercised
Idle == [kind |-> "idle"]

\* ev records the last action: its kind, the chain node it concerned, the
\* on-chain state of that node before the action (for a yield: the type of the
\* yielded step) and whether the call succeeded (for a yield: whether DONE had
\* been yielded before)
NoEv == [kind |-> "none", tx |-> 0, was |-> "none", ok |-> FALSE]

Ev(k, t, w, o) == [kind |-> k, tx |-> t, was |-> w, ok |-> o]
\* ------------------------------------------------------------------------
\* Unroll.Session.next: helpers
\* ------------------------------------------------------------------------
\* only COMMITMENT nodes skipped
IsSkipped_CommitmentOnly(chainTx) == chainTx.type = "COMMITMENT"

\* "Skip commitment transactions as they are always onchain"
IsSkipped(chainTx) == chainTx.type = "COMMITMENT" \/ chainTx.type = "UNSPECIFIED"

\* the for loop from index k down to the leaf, `continue` on skipped nodes:
\* the index of the next node whose status is asked for, 0 when the loop ends
RECURSIVE NextProbe(_, _)
NextProbe(chain, k) ==
    IF k < 1 THEN 0
    ELSE IF IsSkipped(chain[k]) THEN NextProbe(chain, k - 1)
    ELSE k

\* the loop starts at chain.length - 1 (the root)
ScanStart(chain) == Len(chain)

\* what explorer.getTxStatus answers for a transaction in a given state;
\* a transaction that is not known is reported by throwing
TxStatus(s) ==
    CASE s = "offchain"  -> "notfound"
      [] s = "mempool"   -> "unconfirmed"
      [] s = "confirmed" -> "confirmed"

\* getTxStatus is a network call: it may also fail for any other reason
StatusAnswers(s) == {TxStatus(s), "error"}

\* the condition inverted
RepliedUnconfirmed_Inverted(a) == a = "confirmed"

\* `if (!txInfo.confirmed)` on an answer that was returned, not thrown
RepliedUnconfirmed(a) == a = "unconfirmed"

\* no answer taken for a confirmed one
RepliedConfirmed_Never(a) == FALSE

\* any answer taken for a confirmation
RepliedConfirmed_AnyAnswer(a) == a \in {"confirmed", "unconfirmed"}

\* `if (txInfo.confirmed)` on an answer that was returned, not thrown
RepliedConfirmed(a) == a = "confirmed"

\* `catch (e)`: what the try block's handler takes for "not found"
CaughtAsNotFound(a) == a \in {"notfound", "error"}

WaitStep(chainTx) == [type |-> "WAIT", txid |-> chainTx.txid]

DoneStep(u) == [type |-> "DONE", txid |-> u.txid]

UnrollStep(chainTx) == [type |-> "UNROLL", txid |-> chainTx.txid]

\* the loop left after a WAIT step instead
LoopContinues_UntilWait(last) == last # "WAIT"

\* `while (lastStep !== StepType.DONE)`
LoopContinues(last) == last # "DONE"

\* explorer.broadcastTransaction: a transaction that is not on-chain enters the
\* mempool when the explorer accepts it
Accept(oc, k) == IF oc[k] = "offchain" THEN [oc EXCEPT ![k] = "mempool"] ELSE oc

\* a package whose parent is already known submitted as if it were new
SubmitPackage_Resubmits(oc, k, accepted) ==
    IF accepted THEN [oc EXCEPT ![k] = "mempool"] ELSE oc

\* onchainProvider.broadcastTransaction(...pkg) for the package of chain node
\* k: the explorer takes it or answers with an error
SubmitPackage(oc, k, accepted) == IF accepted THEN Accept(oc, k) ELSE oc

\* the period of doWait's setInterval, in milliseconds
POLL_INTERVAL_MS == 5000

Nodes == 1..Len(toUnroll.chain)

Probed == { k \in Nodes : ~IsSkipped(toUnroll.chain[k]) }

\* ------------------------------------------------------------------------
\* Unroll.Session: operations
\* ------------------------------------------------------------------------
InitSession ==
    /\ toUnroll \in { [txid |-> t, chain |-> c] : t \in OutpointTxids, c \in Chains }
    /\ onchain = [k \in 1..Len(toUnroll.chain) |->
                    IF IsSkipped(toUnroll.chain[k]) THEN "confirmed" ELSE "offchain"]
    /\ pc = "call"
    /\ i = 0
    /\ cand = 0
    /\ step = NoStep
    /\ lastStep = None
    /\ queried = {}
    /\ lastAns = "none"
    /\ stable = TRUE
    /\ ev = NoEv
    /\ resumed = FALSE
    /\ subm = "none"
    /\ doneYields = FALSE
    /\ ticks = 0

\* next() is entered: the loop runs down to the first node that is not skipped;
\* with no such node the loop ends and the DONE step is returned
CallNext ==
    /\ pc = "call"
    /\ LET k == NextProbe(toUnroll.chain, ScanStart(toUnroll.chain)) IN
         /\ i' = k
         /\ IF k = 0
              THEN /\ step' = DoneStep(toUnroll)
                   /\ pc' = "do"
                   /\ ev' = Ev("return", 0, "none", TRUE)
              ELSE /\ step' = NoStep
                   /\ pc' = "scan"
                   /\ ev' = Ev("call", 0, "none", TRUE)
    /\ cand' = 0
    /\ queried' = {}
    /\ lastAns' = "none"
    /\ stable' = TRUE
    /\ subm' = "none"
    /\ UNCHANGED <<toUnroll, onchain, lastStep, resumed, doneYields, ticks, sel>>

\* one turn of the loop body: await explorer.getTxStatus(chainTx.txid)
Probe ==
    /\ pc = "scan"
    /\ \E a \in StatusAnswers(onchain[i]) :
         /\ lastAns' = a
         /\ queried' = queried \cup {i}
         /\ IF CaughtAsNotFound(a)
              THEN /\ cand' = i
                   /\ pc' = "fetch"
                   /\ UNCHANGED <<i, step>>
                   /\ ev' = Ev("query", i, onchain[i], FALSE)
              ELSE IF RepliedUnconfirmed(a)
              THEN /\ step' = WaitStep(toUnroll.chain[i])
                   /\ pc' = "do"
                   /\ UNCHANGED <<i, cand>>
                   /\ ev' = Ev("return", i, onchain[i], TRUE)
              ELSE LET k == NextProbe(toUnroll.chain, i - 1) IN
                   /\ i' = k
                   /\ UNCHANGED cand
                   /\ IF k = 0
                        THEN /\ step' = DoneStep(toUnroll)
                             /\ pc' = "do"
                             /\ ev' = Ev("return", i, onchain[i], TRUE)
                        ELSE /\ step' = NoStep
                             /\ pc' = "scan"
                             /\ ev' = Ev("query", i, onchain[i], TRUE)
    /\ UNCHANGED <<toUnroll, onchain, lastStep, stable, resumed, subm, doneYields, ticks, sel>>

\* indexer.getVirtualTxs, Transaction.fromPSBT and the finalisation of the
\* candidate: any of them may throw, which rejects next()
FetchVirtualTx ==
    /\ pc = "fetch"
    /\ \E ok \in BOOLEAN :
         IF ok THEN /\ pc' = "bump"
                    /\ ev' = Ev("fetch", cand, onchain[cand], TRUE)
               ELSE /\ pc' = "failed"
                    /\ ev' = Ev("throw", cand, onchain[cand], FALSE)
    /\ UNCHANGED <<toUnroll, onchain, i, cand, step, lastStep, queried, lastAns,
                   stable, resumed, subm, doneYields, ticks, sel>>

\* bumper.bumpP2A up to its broadcastTransaction(parent.hex, child.hex): it
\* throws when the child cannot be built (no anchor, provider failure,
\* insufficient funds), else it submits the package, which the explorer
\* accepts or rejects
BumpSubmit ==
    /\ pc = "bump"
    /\ \E o \in {"buildfail", "accepted", "rejected"} :
         CASE o = "buildfail" ->
                /\ pc' = "failed"
                /\ ev' = Ev("throw", cand, onchain[cand], FALSE)
                /\ UNCHANGED <<onchain, subm>>
           [] o = "accepted" ->
                /\ pc' = "bumped"
                /\ onchain' = Accept(onchain, cand)
                /\ subm' = "accepted"
                /\ ev' = Ev("submit", cand, onchain[cand], TRUE)
           [] o = "rejected" ->
                /\ pc' = "bumped"
                /\ subm' = "rejected"
                /\ ev' = Ev("submit", cand, onchain[cand], FALSE)
                /\ UNCHANGED onchain
    /\ UNCHANGED <<toUnroll, i, cand, step, lastStep, queried, lastAns,
                   stable, resumed, doneYields, ticks, sel>>
\* bumpP2A after its broadcastTransaction settled: the catch block logs the
\* error and `finally { return [parent.hex, child.hex] }` returns the package
\* whatever the outcome o of the submission was
BumpReturnsPackage(o) == o \in {"accepted", "rejected"}

\* bumpP2A settles and next() returns the UNROLL step (or rejects, if bumpP2A
\* were to surface the failed submission)
BumpReturn ==
    /\ pc = "bumped"
    /\ IF BumpReturnsPackage(subm)
         THEN /\ step' = UnrollStep(toUnroll.chain[cand])
              /\ pc' = "do"
              /\ ev' = Ev("return", cand, onchain[cand], subm = "accepted")
         ELSE /\ step' = NoStep
              /\ pc' = "failed"
              /\ ev' = Ev("throw", cand, onchain[cand], FALSE)
    /\ subm' = "none"
    /\ UNCHANGED <<toUnroll, onchain, i, cand, lastStep, queried, lastAns,
                   stable, resumed, doneYields, ticks, sel>>

\* the locals of next() are gone once its step is being executed
CallOver ==
    /\ i' = 0
    /\ cand' = 0
    /\ queried' = {}
    /\ lastAns' = "none"

\* step.do() of a DONE step: () => Promise.resolve()
DoDone ==
    /\ pc = "do"
    /\ step.type = "DONE"
    /\ pc' = "yield"
    /\ ev' = Ev("resolve", 0, "none", TRUE)
    /\ CallOver
    /\ UNCHANGED <<toUnroll, onchain, step, lastStep, stable, resumed, subm,
                   doneYields, ticks, sel>>

\* step.do() of an UNROLL step: doUnroll submits the package; a rejection
\* rejects do() and the iterator throws
DoUnroll ==
    /\ pc = "do"
    /\ step.type = "UNROLL"
    /\ \E accepted \in BOOLEAN :
         /\ onchain' = SubmitPackage(onchain, step.txid, accepted)
         /\ pc' = IF accepted THEN "yield" ELSE "failed"
         /\ ev' = Ev("dosubmit", step.txid, onchain[step.txid], accepted)
    /\ CallOver
    /\ UNCHANGED <<toUnroll, step, lastStep, stable, resumed, subm, doneYields, ticks, sel>>

\* step.do() of a WAIT step: one tick of doWait's interval, POLL_INTERVAL_MS
\* after the tick before it (after the start of do(), for the first). The
\* status is asked for; a confirmed answer clears the interval and resolves, a
\* failure clears it and rejects, any other answer leaves the interval running.
DoWaitPoll ==
    /\ pc = "do"
    /\ step.type = "WAIT"
    /\ \E a \in StatusAnswers(onchain[step.txid]) :
         /\ IF RepliedConfirmed(a) THEN pc' = "yield"
            ELSE IF a = "error" \/ a = "notfound" THEN pc' = "failed"
            ELSE pc' = "do"
         /\ ev' = Ev("poll", step.txid, onchain[step.txid], a \in {"confirmed", "unconfirmed"})
    /\ ticks' = IF ticks < MaxTicks THEN ticks + 1 ELSE ticks
    /\ CallOver
    /\ UNCHANGED <<toUnroll, onchain, step, lastStep, stable, resumed, subm,
                   doneYields, sel>>

\* `yield step; lastStep = step.type;` and the loop condition
Yield ==
    /\ pc = "yield"
    /\ lastStep' = step.type
    /\ doneYields' = (doneYields \/ step.type = "DONE")
    /\ ev' = Ev("yield", 0, step.type, doneYields)
    /\ pc' = IF LoopContinues(step.type) THEN "sleep" ELSE "ended"
    /\ ticks' = 0
    /\ UNCHANGED <<toUnroll, onchain, i, cand, step, queried, lastAns,
                   stable, resumed, subm, sel>>

\* `if (lastStep !== undefined) await sleep(1_000)`
Sleep ==
    /\ pc = "sleep"
    /\ lastStep # None
    /\ pc' = "call"
    /\ ev' = Ev("sleep", 0, "none", TRUE)
    /\ UNCHANGED <<toUnroll, onchain, i, cand, step, lastStep, queried, lastAns,
                   stable, resumed, subm, doneYields, ticks, sel>>

\* the consumer of the iterator executes the do() of the step it was handed
\* once more. DONE resolves; UNROLL submits the same package again; WAIT
\* starts a new interval, whose first answered poll finds the transaction
\* confirmed (an unconfirmed answer would leave it polling).
DoAgain ==
    /\ pc \in {"sleep", "ended"}
    /\ step # NoStep
    /\ CASE step.type = "DONE" ->
              /\ ev' = Ev("redo", 0, "none", TRUE)
              /\ UNCHANGED onchain
         [] step.type = "UNROLL" ->
              \E accepted \in BOOLEAN :
                 /\ onchain' = SubmitPackage(onchain, step.txid, accepted)
                 /\ ev' = Ev("redo", step.txid, onchain[step.txid], accepted)
         [] step.type = "WAIT" ->
              \E a \in StatusAnswers(onchain[step.txid]) :
                 /\ ev' = Ev(IF RepliedUnconfirmed(a) THEN "repoll" ELSE "redo",
                             step.txid, onchain[step.txid], RepliedConfirmed(a))
                 /\ UNCHANGED onchain
    /\ UNCHANGED <<toUnroll, pc, i, cand, step, lastStep, queried, lastAns,
                   stable, resumed, subm, doneYields, ticks, sel>>

\* the session is abandoned (crash, restart, or the caller gives up after a
\* failure) and Session.create builds a new one from the same outpoint; the
\* indexer answers with the same chain
Restart ==
    /\ pc' = "call"
    /\ i' = 0
    /\ cand' = 0
    /\ step' = NoStep
    /\ lastStep' = None
    /\ queried' = {}
    /\ lastAns' = "none"
    /\ stable' = TRUE
    /\ subm' = "none"
    /\ doneYields' = FALSE
    /\ ticks' = 0
    /\ resumed' = TRUE
    /\ ev' = Ev("create", 0, "none", TRUE)
    /\ UNCHANGED <<toUnroll, onchain, sel>>

\* another party broadcasts a chain transaction
ExternalBroadcast ==
    /\ \E k \in Probed :
         /\ onchain[k] = "offchain"
         /\ onchain' = [onchain EXCEPT ![k] = "mempool"]
    /\ stable' = FALSE
    /\ ev' = NoEv
    /\ UNCHANGED <<toUnroll, pc, i, cand, step, lastStep, queried, lastAns,
                   resumed, subm, doneYields, ticks, sel>>

\* a block confirms a transaction of the mempool
Confirm ==
    /\ \E k \in Probed :
         /\ onchain[k] = "mempool"
         /\ onchain' = [onchain EXCEPT ![k] = "confirmed"]
    /\ stable' = FALSE
    /\ ev' = NoEv
    /\ UNCHANGED <<toUnroll, pc, i, cand, step, lastStep, queried, lastAns,
                   resumed, subm, doneYields, ticks, sel>>

\* ------------------------------------------------------------------------
\* TxWeightEstimator (src/utils/txSizeEstimator.ts)
\* ------------------------------------------------------------------------
INPUT_SIZE == 32 + 4 + 1 + 4

BASE_TX_SIZE == 8 + 2

WITNESS_HEADER_SIZE == 2

WITNESS_SCALE_FACTOR == 4

\* script lengths of the destinations the wallet pays to
P2WPKH_OUTPUT_SIZE == 1 + 1 + 20

P2TR_OUTPUT_SIZE == 1 + 1 + 32

\* n < 0xffffffff, on the two 16-bit halves of n
BelowMaxU32(n) == (n \div 65536) < 65535 \/ ((n \div 65536) = 65535 /\ (n % 65536) < 65535)

getVarIntSize(n) ==
    IF n < 253 THEN 1
    ELSE IF n < 65535 THEN 3
    ELSE IF BelowMaxU32(n) THEN 5
    ELSE 9

\* TxWeightEstimator.create()
EstimatorCreate ==
    [hasWitness |-> FALSE, inputCount |-> 0, outputCount |-> 0,
     inputSize |-> 0, inputWitnessSize |-> 0, outputSize |-> 0]

\* the witness size is set, not added to
addKeySpendInput_SetsWitness(e, isDefault) ==
    [e EXCEPT !.inputCount = @ + 1,
              !.inputWitnessSize = 64 + 1 + (IF isDefault THEN 0 ELSE 1),
              !.inputSize = @ + INPUT_SIZE,
              !.hasWitness = TRUE]

addKeySpendInput(e, isDefault) ==
    [e EXCEPT !.inputCount = @ + 1,
              !.inputWitnessSize = @ + 64 + 1 + (IF isDefault THEN 0 ELSE 1),
              !.inputSize = @ + INPUT_SIZE,
              !.hasWitness = TRUE]

\* every destination costed as a native-segwit one
addOutputAddress_FixedScript(e, scriptLen) ==
    [e EXCEPT !.outputCount = @ + 1,
              !.outputSize = @ + 8 + getVarIntSize(P2WPKH_OUTPUT_SIZE) + P2WPKH_OUTPUT_SIZE]

\* addOutputAddress, on the length of the script the address decodes to
addOutputAddress(e, scriptLen) ==
    [e EXCEPT !.outputCount = @ + 1,
              !.outputSize = @ + 8 + getVarIntSize(scriptLen) + scriptLen]

BASE_CONTROL_BLOCK_SIZE == 1 + 32

OUTPUT_SIZE == 8 + 1

addTapscriptInput(e, leafWitnessSize, leafScriptSize, leafControlBlockSize) ==
    LET controlBlockWitnessSize ==
            1 + BASE_CONTROL_BLOCK_SIZE + 1 + leafScriptSize + 1 + leafControlBlockSize
    IN [e EXCEPT !.inputCount = @ + 1,
                 !.inputWitnessSize = @ + leafWitnessSize + 1 + controlBlockWitnessSize,
                 !.inputSize = @ + INPUT_SIZE,
                 !.hasWitness = TRUE]

addP2TROutput(e) ==
    [e EXCEPT !.outputCount = @ + 1,
              !.outputSize = @ + OUTPUT_SIZE + P2TR_OUTPUT_SIZE]

addP2AInput(e) ==
    [e EXCEPT !.inputCount = @ + 1,
              !.inputSize = @ + INPUT_SIZE]

P2PKH_SCRIPT_SIG_SIZE == 1 + 73 + 1 + 33

addP2PKHInput(e) ==
    [e EXCEPT !.inputCount = @ + 1,
              !.inputWitnessSize = @ + 1,
              !.inputSize = @ + INPUT_SIZE + P2PKH_SCRIPT_SIG_SIZE]

addP2WPKHOutput(e) ==
    [e EXCEPT !.outputCount = @ + 1,
              !.outputSize = @ + OUTPUT_SIZE + P2WPKH_OUTPUT_SIZE]

\* Math.ceil(a / b) for a >= 0, b > 0
CeilDiv(a, b) == (a + b - 1) \div b

\* vsize().fee(feeRate), on the value of the same vsize() call
VsizeFee(value, feeRate) == feeRate * value

\* TxWeightEstimator.vsize().value
vsize(e) ==
    LET txSizeStripped == BASE_TX_SIZE + getVarIntSize(e.inputCount) + e.inputSize
                          + getVarIntSize(e.outputCount) + e.outputSize
        weight == txSizeStripped * WITNESS_SCALE_FACTOR
                  + (IF e.hasWitness THEN WITNESS_HEADER_SIZE + e.inputWitnessSize ELSE 0)
    IN CeilDiv(weight, WITNESS_SCALE_FACTOR)

\* n applications of addKeySpendInput(): `for (const _ of selected.inputs)`
RECURSIVE AddKeySpendInputs(_, _)
AddKeySpendInputs(e, n) ==
    IF n = 0 THEN e ELSE AddKeySpendInputs(addKeySpendInput(e, TRUE), n - 1)

\* ------------------------------------------------------------------------
\* selectCoins
\* ------------------------------------------------------------------------
\* a coin list from its values: the coin at position k is outpoint k
CoinsOf(values) == [k \in 1..Len(values) |-> [txid |-> k, value |-> values[k]]]

RECURSIVE SumValues(_)
SumValues(coins) ==
    IF coins = <<>> THEN 0 ELSE coins[1].value + SumValues(Tail(coins))

\* insertion of c into a list sorted by (a, b) => b.value - a.value, after the
\* coins that compare equal to it (Array.prototype.sort is stable)
RECURSIVE InsertDesc(_, _)
InsertDesc(sorted, c) ==
    IF sorted = <<>> THEN <<c>>
    ELSE IF sorted[1].value >= c.value THEN <<sorted[1]>> \o InsertDesc(Tail(sorted), c)
    ELSE <<c>> \o sorted

\* [...coins].sort((a, b) => b.value - a.value)
RECURSIVE SortDesc(_)
SortDesc(coins) ==
    IF coins = <<>> THEN <<>>
    ELSE InsertDesc(SortDesc(SubSeq(coins, 1, Len(coins) - 1)), coins[Len(coins)])

\* the stopping rule of the selection loop
Enough(selectedAmount, targetAmount, forceChange) ==
    IF forceChange THEN selectedAmount > targetAmount ELSE selectedAmount >= targetAmount

\* `for (const coin of sortedCoins)`: the number of coins pushed, from k coins
\* already pushed with their sum
RECURSIVE Taken(_, _, _, _, _)
Taken(sortedCoins, k, selectedAmount, targetAmount, forceChange) ==
    IF k = Len(sortedCoins) THEN k
    ELSE IF Enough(selectedAmount + sortedCoins[k + 1].value, targetAmount, forceChange)
         THEN k + 1
    ELSE Taken(sortedCoins, k + 1, selectedAmount + sortedCoins[k + 1].value,
               targetAmount, forceChange)

\* the failure reported as an empty selection
Thrown_AsEmptySelection(msg) == [error |-> "none", inputs |-> <<>>, changeAmount |-> 0]

\* `throw new Error(msg)`: no selection is returned
Thrown(msg) == [error |-> msg, inputs |-> <<>>, changeAmount |-> 0]

Returned(inputs, change) == [error |-> "none", inputs |-> inputs, changeAmount |-> change]

selectCoins(coins, targetAmount, forceChange) ==
    IF targetAmount < 0 THEN Thrown("Target amount is negative")
    ELSE IF targetAmount = 0 THEN Returned(<<>>, 0)
    ELSE LET sortedCoins == SortDesc(coins)
             n == Taken(sortedCoins, 0, 0, targetAmount, forceChange)
             selectedCoins == SubSeq(sortedCoins, 1, n)
             selectedAmount == SumValues(selectedCoins)
         IN IF selectedAmount = targetAmount THEN Returned(selectedCoins, 0)
            ELSE IF selectedAmount < targetAmount THEN Thrown("Insufficient funds")
            ELSE Returned(selectedCoins, selectedAmount - targetAmount)

\* a JavaScript number given as targetAmount: an integer n, the fraction
\* n + 1/2, NaN or an infinity (floor is n, and 0 for the last three)
JsNumbers(ints) ==
    { [kind |-> k, floor |-> n] : k \in {"integer", "fraction"}, n \in ints }
    \cup { [kind |-> k, floor |-> 0] : k \in {"NaN", "Infinity", "-Infinity"} }

\* `isNaN(targetAmount)`
isNaN(t) == t.kind = "NaN"

\* `targetAmount < 0` for a number that is not an integer
NegativeNumber(t) == t.kind = "-Infinity" \/ (t.kind = "fraction" /\ t.floor < 0)

\* selectCoins on any number. A positive target that is not an integer is
\* never === 0 nor === selectedAmount; the loop stops at the first sum that is
\* at least floor + 1 (never, for Infinity), and BigInt(selectedAmount -
\* targetAmount) throws a RangeError for a difference that is not an integer.
selectCoinsAnyNumber(coins, t, forceChange) ==
    IF isNaN(t) THEN Thrown("Target amount is NaN")
    ELSE IF t.kind = "integer" THEN selectCoins(coins, t.floor, forceChange)
    ELSE IF NegativeNumber(t) THEN Thrown("Target amount is negative")
    ELSE LET sortedCoins == SortDesc(coins)
             n == IF t.kind = "Infinity" THEN Len(sortedCoins)
                  ELSE Taken(sortedCoins, 0, 0, t.floor + 1, FALSE)
             selectedAmount == SumValues(SubSeq(sortedCoins, 1, n))
         IN IF t.kind = "Infinity" \/ selectedAmount < t.floor + 1
              THEN Thrown("Insufficient funds")
              ELSE Thrown("RangeError: not an integer, cannot be converted to a BigInt")

\* ------------------------------------------------------------------------
\* OnchainWallet.estimateFeesAndSelectCoins
\* ------------------------------------------------------------------------
MAX_ITERATIONS == 10

MIN_FEE_RATE == 1

DUST_AMOUNT == 546

\* Math.ceil(Number(vsize) * feeRate), the fee rate given as num / den
RoundedFee(vs, feeRate) == CeilDiv(vs * feeRate.num, feeRate.den)

\* the change output estimated whatever the change amount
PlanEstimate_AlwaysChange(selected, recipientScriptLen) ==
    addOutputAddress(addOutputAddress(AddKeySpendInputs(EstimatorCreate, Len(selected.inputs)),
                                      recipientScriptLen), P2TR_OUTPUT_SIZE)

\* one input estimated whatever the number of selected coins
PlanEstimate_OneInput(selected, recipientScriptLen) ==
    LET withPayment == addOutputAddress(addKeySpendInput(EstimatorCreate, TRUE),
                                        recipientScriptLen)
    IN IF selected.changeAmount >= DUST_AMOUNT
         THEN addOutputAddress(withPayment, P2TR_OUTPUT_SIZE)
         ELSE withPayment

\* the estimate of one iteration: a key-spend input per selected coin, the
\* recipient's output and, when the change is not dust, the change output to
\* the wallet's own (P2TR) address
PlanEstimate(selected, recipientScriptLen) ==
    LET withInputs == AddKeySpendInputs(EstimatorCreate, Len(selected.inputs))
        withPayment == addOutputAddress(withInputs, recipientScriptLen)
    IN IF selected.changeAmount >= DUST_AMOUNT
         THEN addOutputAddress(withPayment, P2TR_OUTPUT_SIZE)
         ELSE withPayment

\* an estimate equal to the budget does not end the loop
Converged_Strict(roundedNewFee, fee) == roundedNewFee < fee

\* `if (roundedNewFee <= fee)`
Converged(roundedNewFee, fee) == roundedNewFee <= fee

\* `i < MAX_ITERATIONS`
MoreIterations(iter) == iter < MAX_ITERATIONS

NoSelection == Thrown("pending")

\* one turn of the loop of estimateFeesAndSelectCoins
PlanIterate ==
    /\ sel.kind \in {"plan", "send"}
    /\ sel.phase = "loop"
    /\ MoreIterations(sel.iter)
    /\ LET totalNeeded == sel.amount + sel.fee
           selected == selectCoins(sel.coins, totalNeeded, FALSE)
       IN IF selected.error # "none"
            THEN sel' = [sel EXCEPT !.phase = "thrown", !.selected = selected,
                                    !.budget = sel.fee, !.out = selected]
            ELSE LET roundedNewFee ==
                         RoundedFee(vsize(PlanEstimate(selected, sel.recipient)), sel.feeRate)
                 IN IF Converged(roundedNewFee, sel.fee)
                      THEN sel' = [sel EXCEPT !.phase = "returned", !.selected = selected,
                                              !.budget = sel.fee, !.fee = roundedNewFee,
                                              !.out = selected]
                      ELSE sel' = [sel EXCEPT !.iter = @ + 1, !.selected = selected,
                                              !.budget = sel.fee, !.fee = roundedNewFee]
    /\ UNCHANGED svars

\* the loop ends without a return: throw "Fee estimation failed: could not converge"
PlanExhausted ==
    /\ sel.kind \in {"plan", "send"}
    /\ sel.phase = "loop"
    /\ ~MoreIterations(sel.iter)
    /\ sel' = [sel EXCEPT !.phase = "thrown",
                          !.out = Thrown("Fee estimation failed: could not converge")]
    /\ UNCHANGED svars

\* the wallets the planner is run on: a few larger coins, in the order the
\* explorer lists them, followed by n equal small coins
SmallCoinValues == {677, 1000}

LargeCoins == {<<>>, <<51910>>, <<12000, 100000>>}

PlanWallets ==
    { CoinsOf(big \o [k \in 1..n |-> v]) :
        big \in LargeCoins, n \in 0..MaxPlanCoins, v \in SmallCoinValues }

\* send() passes amounts of at least DUST_AMOUNT and fee rates of at least MIN_FEE_RATE
PlanAmounts == {DUST_AMOUNT, 50000, 111500}

PlanFeeRates == { [num |-> MIN_FEE_RATE, den |-> 1], [num |-> 3, den |-> 2],
                  [num |-> 3, den |-> 1], [num |-> 10, den |-> 1] }

RecipientScripts == {P2WPKH_OUTPUT_SIZE, P2TR_OUTPUT_SIZE}

\* ------------------------------------------------------------------------
\* OnchainWallet.send
\* ------------------------------------------------------------------------
\* a fee rate that is absent (params.feeRate undefined) or 0
NoFeeRate == [num |-> 0, den |-> 1]

\* `!feeRate`
Falsy(feeRate) == feeRate.num = 0

\* `feeRate < OnchainWallet.MIN_FEE_RATE`
BelowMinFeeRate(feeRate) == feeRate.num < MIN_FEE_RATE * feeRate.den

\* the fee rate taken as it comes, without the minimum
EffectiveFeeRate_NoFloor(paramFeeRate, providerFeeRate) ==
    IF Falsy(paramFeeRate) THEN providerFeeRate ELSE paramFeeRate

\* the fee rate send() plans with: the caller's, else the provider's, and
\* MIN_FEE_RATE when that is absent or lower
EffectiveFeeRate(paramFeeRate, providerFeeRate) ==
    LET feeRate == IF Falsy(paramFeeRate) THEN providerFeeRate ELSE paramFeeRate
    IN IF Falsy(feeRate) \/ BelowMinFeeRate(feeRate)
         THEN [num |-> MIN_FEE_RATE, den |-> 1]
         ELSE feeRate

\* only amounts below the dust limit rejected, zero and negative ones taken
\* for dust
AmountError_DustOnly(amount) ==
    IF amount < DUST_AMOUNT THEN "Amount is below dust limit" ELSE "none"

\* the two checks send() opens with
AmountError(amount) ==
    IF amount <= 0 THEN "Amount must be positive"
    ELSE IF amount < DUST_AMOUNT THEN "Amount is below dust limit"
    ELSE "none"

\* send() is entered: the amount is checked before anything is fetched
SendValidate ==
    /\ sel.kind = "send"
    /\ sel.phase = "validate"
    /\ IF AmountError(sel.amount) # "none"
         THEN sel' = [sel EXCEPT !.phase = "thrown", !.out = Thrown(AmountError(sel.amount))]
         ELSE sel' = [sel EXCEPT !.phase = "fetch"]
    /\ UNCHANGED svars

\* await this.getCoins() and, without a caller's fee rate, getFeeRate(): the
\* provider answers or the request fails, which rejects send()
SendFetch ==
    /\ sel.kind = "send"
    /\ sel.phase = "fetch"
    /\ \E ok \in BOOLEAN :
         IF ok
           THEN sel' = [sel EXCEPT !.phase = "loop", !.fetched = TRUE,
                                   !.coins = sel.wallet,
                                   !.feeRate = EffectiveFeeRate(sel.paramFeeRate,
                                                                sel.providerFeeRate)]
           ELSE sel' = [sel EXCEPT !.phase = "thrown", !.fetched = TRUE,
                                   !.out = Thrown("provider request failed")]
    /\ UNCHANGED svars

\* a change output for any change that is not zero
SendOutputs_AnyChange(amount, changeAmount) ==
    IF changeAmount > 0 THEN <<amount, changeAmount>> ELSE <<amount>>

\* the outputs of the transaction send() builds, by their amounts: the payment
\* and, `if (changeAmount >= BigInt(DUST_AMOUNT))`, the change
SendOutputs(amount, changeAmount) ==
    IF changeAmount >= DUST_AMOUNT THEN <<amount, changeAmount>> ELSE <<amount>>

\* the planner returned: the transaction is built from its inputs and change
\* amount, signed and finalised
SendBuild ==
    /\ sel.kind = "send"
    /\ sel.phase = "returned"
    /\ sel' = [sel EXCEPT !.phase = "built",
                          !.txInputs = sel.out.inputs,
                          !.txOutputs = SendOutputs(sel.amount, sel.out.changeAmount)]
    /\ UNCHANGED svars

\* await this.provider.broadcastTransaction(tx.hex): the txid is returned, or
\* the provider's error rejects send()
SendBroadcast ==
    /\ sel.kind = "send"
    /\ sel.phase = "built"
    /\ \E accepted \in BOOLEAN :
         IF accepted
           THEN sel' = [sel EXCEPT !.phase = "sent", !.broadcasts = @ + 1]
           ELSE sel' = [sel EXCEPT !.phase = "thrown", !.broadcasts = @ + 1,
                                   !.out = Thrown("broadcast failed")]
    /\ UNCHANGED svars

\* the wallets send() is run on: the coins of the wallet tests and a wallet of
\* equal small coins
SendWallets ==
    { CoinsOf(v) : v \in { <<>>, <<51910>>, <<100000, 12000>>,
                           <<100000, 7000, 1000, 6500, 12000, 1400>>,
                           [k \in 1..MaxPlanCoins |-> 677],
                           [k \in 1..(MaxPlanCoins + 1) |-> 641] } }

SendAmounts == {0 - 1000, 0, 1, DUST_AMOUNT - 1, DUST_AMOUNT, 50000, 111500, 12500000}

SendParamFeeRates == {NoFeeRate, [num |-> 10, den |-> 1]}

SendProviderFeeRates == {NoFeeRate, [num |-> 1, den |-> 2], [num |-> 3, den |-> 1]}

\* ------------------------------------------------------------------------
\* availableExitPath
\* ------------------------------------------------------------------------
\* exit.params.timelock of the exit paths of a tap tree
ExitPaths == { [type |-> t, value |-> v] : t \in {"blocks", "seconds"}, v \in 1..MaxLock }

\* BlockTime values up to n
BlockTimes(n) == { [height |-> h, time |-> t] : h \in 0..n, t \in 0..n }

\* the comparisons strict
Matured_Strict(confirmedAt, current, exit) ==
    IF exit.type = "blocks"
      THEN current.height > confirmedAt.height + exit.value
      ELSE current.time > confirmedAt.time + exit.value

\* the test made on one exit path of the loop
Matured(confirmedAt, current, exit) ==
    IF exit.type = "blocks"
      THEN current.height >= confirmedAt.height + exit.value
      ELSE current.time >= confirmedAt.time + exit.value

\* `for (const exit of exits)` from position k on: the position of the exit
\* returned, 0 for undefined
RECURSIVE FirstMatured(_, _, _, _)
FirstMatured(confirmedAt, current, exits, k) ==
    IF k > Len(exits) THEN 0
    ELSE IF Matured(confirmedAt, current, exits[k]) THEN k
    ELSE FirstMatured(confirmedAt, current, exits, k + 1)

\* availableExitPath, on the exit paths the vtxo's tap tree decodes to
availableExitPath(confirmedAt, current, exits) == FirstMatured(confirmedAt, current, exits, 1)

ExitCall ==
    /\ sel.kind = "exit"
    /\ sel.phase = "args"
    /\ sel' = [sel EXCEPT !.phase = "done",
                          !.out = availableExitPath(sel.confirmedAt, sel.current, sel.exits)]
    /\ UNCHANGED svars

\* ------------------------------------------------------------------------
\* Unroll.completeUnroll / prepareUnrollTransaction
\* ------------------------------------------------------------------------
\* the signature size passed to addTapscriptInput
LEAF_WITNESS_SIZE == 64

\* spendingLeaf[1].length and the length of the encoded control block of a
\* CSV multisig exit leaf one level below the root
LeafScriptSize == 72

LeafControlBlockSize == 33 + 32

\* the value of every vtxo of the wallets drawn
VtxoValue == 200

\* the block the unrolled vtxos were confirmed in and the chain tip
ConfirmedAt == [height |-> 1, time |-> 1]

ChainTip == [height |-> MaxLock, time |-> MaxLock]

\* exit paths of the vtxos drawn: none; one that has not matured at ChainTip;
\* an unmatured one declared before a matured one; two matured ones
VtxoExitLists ==
    { <<>>,
      <<[type |-> "blocks", value |-> MaxLock]>>,
      <<[type |-> "blocks", value |-> MaxLock], [type |-> "seconds", value |-> 1]>>,
      <<[type |-> "seconds", value |-> 1], [type |-> "blocks", value |-> 1]>> }

\* what wallet.getVtxos({ withUnrolled: true }) can answer: the vtxo at
\* position k has txid k
VtxoLists ==
    UNION { { [k \in 1..n |-> [txid |-> k, value |-> VtxoValue, isUnrolled |-> f[k][1],
                               confirmed |-> f[k][2], exits |-> f[k][3]]] :
              f \in [1..n -> BOOLEAN \X BOOLEAN \X VtxoExitLists] } : n \in 0..MaxVtxos }

\* the requested txids: any set of txids, one of them held by no wallet
RequestedTxids == SUBSET (1..(MaxVtxos + 1))

\* what getFeeRate() answers: nothing, a rate that is not an integer, a rate
\* at which the fee exceeds the vtxos' value
CompleteFeeRates ==
    {NoFeeRate, [num |-> 1, den |-> 2], [num |-> 3, den |-> 2], [num |-> 3, den |-> 1]}

\* every vtxo taken for fully unrolled
IsUnrolled_Always(vtxo) == TRUE

\* `vtxo.isUnrolled`
IsUnrolled(vtxo) == vtxo.isUnrolled

\* vtxos.filter((vtxo) => vtxoTxIds.includes(vtxo.txid))
RECURSIVE FilterVtxos(_, _)
FilterVtxos(vtxos, vtxoTxIds) ==
    IF vtxos = <<>> THEN <<>>
    ELSE IF vtxos[1].txid \in vtxoTxIds
      THEN <<vtxos[1]>> \o FilterVtxos(Tail(vtxos), vtxoTxIds)
      ELSE FilterVtxos(Tail(vtxos), vtxoTxIds)

CompleteThrow(msg) == [sel EXCEPT !.phase = "thrown", !.error = msg]

\* prepareUnrollTransaction is entered: getChainTip and getVtxos answer (or
\* fail, which rejects), the vtxos are filtered by txid, and it throws if
\* none is left
CompletePrepare ==
    /\ sel.kind = "complete"
    /\ sel.phase = "start"
    /\ \E ok \in BOOLEAN :
         IF ~ok THEN sel' = CompleteThrow("provider request failed")
         ELSE LET vtxos == FilterVtxos(sel.wallet, sel.vtxoTxIds)
              IN IF Len(vtxos) = 0
                   THEN sel' = CompleteThrow("No vtxos to complete unroll")
                   ELSE sel' = [sel EXCEPT !.phase = "loop", !.vtxos = vtxos, !.k = 1]
    /\ UNCHANGED svars

\* one turn of `for (const vtxo of vtxos)`. The leaf of the exit returned is
\* found in the tap tree the exit was decoded from.
CompleteVtxo ==
    /\ sel.kind = "complete"
    /\ sel.phase = "loop"
    /\ LET vtxo == sel.vtxos[sel.k] IN
         IF ~IsUnrolled(vtxo) THEN sel' = CompleteThrow("is not fully unrolled, use unroll first")
         ELSE \E answered \in BOOLEAN :
           IF ~answered THEN sel' = CompleteThrow("provider request failed")
           ELSE IF ~vtxo.confirmed THEN sel' = CompleteThrow("is not confirmed")
           ELSE LET exit == availableExitPath(ConfirmedAt, sel.chainTip, vtxo.exits)
                IN IF exit = 0
                     THEN sel' = CompleteThrow("no available exit path found")
                     ELSE sel' = [sel EXCEPT
                            !.totalAmount = @ + vtxo.value,
                            !.inputs = Append(@, [txid |-> vtxo.txid, exit |-> exit]),
                            !.estimator = addTapscriptInput(@, LEAF_WITNESS_SIZE,
                                                            LeafScriptSize, LeafControlBlockSize),
                            !.k = @ + 1,
                            !.phase = IF sel.k = Len(sel.vtxos) THEN "fee" ELSE "loop"]
    /\ UNCHANGED svars

\* BigInt(feeRate) throws a RangeError for a fee rate that is not an integer
IsIntegerRate(feeRate) == feeRate.num % feeRate.den = 0

\* after the loop: the output is estimated, the fee rate fetched and floored
\* at MIN_FEE_RATE, the fee compared with the total, the transaction signed
CompleteFee ==
    /\ sel.kind = "complete"
    /\ sel.phase = "fee"
    /\ \E ok \in BOOLEAN :
         IF ~ok THEN sel' = CompleteThrow("provider request failed")
         ELSE LET feeRate == EffectiveFeeRate(NoFeeRate, sel.providerFeeRate)
                  estimator == addP2TROutput(sel.estimator)
                  feeAmount == vsize(estimator) * (feeRate.num \div feeRate.den)
              IN IF ~IsIntegerRate(feeRate)
                   THEN sel' = CompleteThrow("RangeError: not an integer, cannot be converted to a BigInt")
                   ELSE IF feeAmount > sel.totalAmount
                   THEN sel' = CompleteThrow("fee amount is greater than the total amount")
                   ELSE sel' = [sel EXCEPT !.phase = "signed", !.estimator = estimator,
                                           !.outputAmount = sel.totalAmount - feeAmount]
    /\ UNCHANGED svars

\* completeUnroll: broadcastTransaction(signedTx.hex), then the txid is returned
CompleteBroadcast ==
    /\ sel.kind = "complete"
    /\ sel.phase = "signed"
    /\ \E accepted \in BOOLEAN :
         IF accepted
           THEN sel' = [sel EXCEPT !.phase = "sent", !.broadcasts = @ + 1]
           ELSE sel' = [sel EXCEPT !.phase = "thrown", !.broadcasts = @ + 1,
                                   !.error = "broadcast failed"]
    /\ UNCHANGED svars

\* ------------------------------------------------------------------------
\* OnchainWallet.bumpP2A
\* ------------------------------------------------------------------------
\* P2A.amount, the value of the anchor output (utils/anchor)
AnchorValues == {0, 240}

\* findP2AOutput(parent): the anchor output of the parent as an input of the
\* child (utils/anchor)
AnchorInput(anchorValue) == [txid |-> 0, value |-> anchorValue]

\* the estimate of the child: one key-spend input, the anchor input and one
\* output to the wallet's own (Taproot) address
ChildVsize ==
    vsize(addOutputAddress(addP2AInput(addKeySpendInput(EstimatorCreate, TRUE)),
                           P2TR_OUTPUT_SIZE))

BumpThrow(msg) == [sel EXCEPT !.phase = "thrown", !.error = msg]

\* the provider's fee rate, MIN_FEE_RATE when it is absent or lower
BumpFeeRate(providerFeeRate) ==
    IF Falsy(providerFeeRate) \/ BelowMinFeeRate(providerFeeRate)
      THEN [num |-> MIN_FEE_RATE, den |-> 1]
      ELSE providerFeeRate

\* fee rates the provider answers bumpP2A with
BumpFeeRates ==
    {NoFeeRate, [num |-> 1, den |-> 2], [num |-> 3, den |-> 2], [num |-> 3, den |-> 1]}

\* bumpP2A up to the fee: the anchor input (findP2AOutput throws without an
\* anchor output), the package size, the provider's fee rate and the fee
BumpFee ==
    /\ sel.kind = "bump"
    /\ sel.phase = "start"
    /\ IF ~sel.hasAnchor THEN sel' = BumpThrow("P2A output not found")
       ELSE \E ok \in BOOLEAN :
         IF ~ok THEN sel' = [BumpThrow("provider request failed")
                               EXCEPT !.childInputs = <<AnchorInput(sel.anchorValue)>>]
         ELSE LET packageVSize == sel.parentVsize + ChildVsize
                  feeRate == BumpFeeRate(sel.providerFeeRate)
                  fee == RoundedFee(packageVSize, feeRate)
              IN IF fee = 0
                   THEN sel' = [BumpThrow("invalid fee")
                                  EXCEPT !.childInputs = <<AnchorInput(sel.anchorValue)>>]
                   ELSE sel' = [sel EXCEPT !.phase = "select",
                                           !.childInputs = <<AnchorInput(sel.anchorValue)>>,
                                           !.childVsize = ChildVsize,
                                           !.feeRate = feeRate,
                                           !.fee = fee]
    /\ UNCHANGED svars

\* getCoins(), selectCoins(coins, fee, true), the inputs and the one output of
\* the child
BumpSelect ==
    /\ sel.kind = "bump"
    /\ sel.phase = "select"
    /\ \E ok \in BOOLEAN :
         IF ~ok THEN sel' = BumpThrow("provider request failed")
         ELSE LET selected == selectCoins(sel.wallet, sel.fee, TRUE)
              IN IF selected.error # "none"
                   THEN sel' = [BumpThrow(selected.error) EXCEPT !.selected = selected]
                   ELSE sel' = [sel EXCEPT !.phase = "built",
                                           !.selected = selected,
                                           !.childInputs = @ \o selected.inputs,
                                           !.childOutputs =
                                               <<sel.anchorValue + selected.changeAmount>>]
    /\ UNCHANGED svars

\* the child is signed and the package sent: the provider's answer is caught
\* and [parent.hex, child.hex] returned in either case
BumpBroadcast ==
    /\ sel.kind = "bump"
    /\ sel.phase = "built"
    /\ \E accepted \in BOOLEAN :
         sel' = [sel EXCEPT !.phase = "returned", !.broadcasts = @ + 1,
                            !.accepted = accepted]
    /\ UNCHANGED svars

\* virtual sizes of the parent
ParentVsizes == {100, 200}

\* the wallets bumpP2A is run on: no coin, one coin of exactly the smallest
\* fee, that coin and a smaller one, equal small coins, the coins of the wallet
\* tests
BumpWallets ==
    { CoinsOf(v) : v \in {<<>>, <<ChildVsize + 100>>, <<ChildVsize + 100, 1>>,
                          <<300, 300, 300, 300>>,
                          <<100000, 7000, 1000, 6500, 12000, 1400>>} }

\* ------------------------------------------------------------------------
\* TxWeightEstimator as an object: add calls and vsize() on one estimator
\* ------------------------------------------------------------------------
\* the estimator after nIn calls of addKeySpendInput() and nOut calls of
\* addP2TROutput() on a fresh one
EstimatorAfter(nIn, nOut) ==
    [hasWitness |-> nIn > 0, inputCount |-> nIn, outputCount |-> nOut,
     inputSize |-> nIn * INPUT_SIZE,
     inputWitnessSize |-> nIn * (64 + 1),
     outputSize |-> nOut * (OUTPUT_SIZE + P2TR_OUTPUT_SIZE)]

\* one add call and its arguments
Op(name, a, b, c) == [op |-> name, a |-> a, b |-> b, c |-> c]

\* add calls can be made on the estimator
EstAdding == sel.kind = "estimate" /\ Len(sel.ops) < MaxOps

\* the estimator is updated in place by the call op, which leaves it as e
Added(op, e) ==
    [sel EXCEPT !.before = sel.e, !.e = e, !.ops = Append(@, op),
                !.measured = FALSE, !.value = 0, !.feeRate = 0, !.fee = 0]

EstAddP2AInput ==
    /\ EstAdding
    /\ sel' = Added(Op("addP2AInput", 0, 0, 0), addP2AInput(sel.e))
    /\ UNCHANGED svars

EstAddKeySpendInput ==
    /\ EstAdding
    /\ \E isDefault \in BOOLEAN :
          sel' = Added(Op("addKeySpendInput", IF isDefault THEN 1 ELSE 0, 0, 0),
                       addKeySpendInput(sel.e, isDefault))
    /\ UNCHANGED svars

EstAddP2PKHInput ==
    /\ EstAdding
    /\ sel' = Added(Op("addP2PKHInput", 0, 0, 0), addP2PKHInput(sel.e))
    /\ UNCHANGED svars

EstAddTapscriptInput ==
    /\ EstAdding
    /\ sel' = Added(Op("addTapscriptInput", LEAF_WITNESS_SIZE, LeafScriptSize,
                       LeafControlBlockSize),
                    addTapscriptInput(sel.e, LEAF_WITNESS_SIZE, LeafScriptSize,
                                      LeafControlBlockSize))
    /\ UNCHANGED svars

EstAddP2WPKHOutput ==
    /\ EstAdding
    /\ sel' = Added(Op("addP2WPKHOutput", 0, 0, 0), addP2WPKHOutput(sel.e))
    /\ UNCHANGED svars

EstAddP2TROutput ==
    /\ EstAdding
    /\ sel' = Added(Op("addP2TROutput", 0, 0, 0), addP2TROutput(sel.e))
    /\ UNCHANGED svars

\* the address decodes to a native-segwit or to a Taproot script
EstAddOutputAddress ==
    /\ EstAdding
    /\ \E scriptLen \in RecipientScripts :
          sel' = Added(Op("addOutputAddress", scriptLen, 0, 0),
                       addOutputAddress(sel.e, scriptLen))
    /\ UNCHANGED svars

\* fee rates handed to vsize().fee(): bigints
EstFeeRates == {0, 1, 3}

\* const v = estimator.vsize(); v.value; v.fee(feeRate)
EstVsize ==
    /\ sel.kind = "estimate"
    /\ ~sel.measured
    /\ \E feeRate \in EstFeeRates :
          LET value == vsize(sel.e)
          IN sel' = [sel EXCEPT !.measured = TRUE, !.value = value,
                                !.feeRate = feeRate, !.fee = VsizeFee(value, feeRate)]
    /\ UNCHANGED svars

\* calls already made on the estimator when it is first observed
PriorInputCounts == {0, 252, 65534}

PriorOutputCounts == {0, 252}

\* getVarIntSize(n) called on its own
VarIntCall ==
    /\ sel.kind = "varint"
    /\ sel.phase = "args"
    /\ sel' = [sel EXCEPT !.phase = "done", !.out = getVarIntSize(sel.n)]
    /\ UNCHANGED svars

\* values around each threshold of getVarIntSize
VarIntArgs ==
    (0..2) \cup (250..255) \cup (65533..65538) \cup {2147483647}

\* ------------------------------------------------------------------------
\* selectCoins as an operation
\* ------------------------------------------------------------------------
SelectCall ==
    /\ sel.kind = "select"
    /\ sel.phase = "args"
    /\ sel' = [sel EXCEPT !.phase = "done",
                          !.out = selectCoins(sel.coins, sel.targetAmount, sel.forceChange)]
    /\ UNCHANGED svars

\* selectCoins called with a number of any kind
SelectCallAnyNumber ==
    /\ sel.kind = "selectnum"
    /\ sel.phase = "args"
    /\ sel' = [sel EXCEPT !.phase = "done",
                          !.out = selectCoinsAnyNumber(sel.coins, sel.target, sel.forceChange)]
    /\ UNCHANGED svars

RECURSIVE SeqsUpTo(_, _)
SeqsUpTo(S, n) ==
    IF n = 0 THEN {<<>>}
    ELSE LET shorter == SeqsUpTo(S, n - 1)
         IN shorter \cup { Append(q, x) : q \in { r \in shorter : Len(r) = n - 1 }, x \in S }

SelectValueLists == SeqsUpTo(0..MaxCoinValue, MaxCoins)

SelectTargets == (0 - 1)..(MaxCoins * MaxCoinValue + 1)

\* no session is running while the wallet operations are exercised
SessionIdle ==
    /\ toUnroll = [txid |-> 1, chain |-> <<>>]
    /\ onchain = <<>>
    /\ pc = "none"
    /\ i = 0
    /\ cand = 0
    /\ step = NoStep
    /\ lastStep = None
    /\ queried = {}
    /\ lastAns = "none"
    /\ stable = TRUE
    /\ ev = NoEv
    /\ resumed = FALSE
    /\ subm = "none"
    /\ doneYields = FALSE
    /\ ticks = 0

InitSelect ==
    /\ SessionIdle
    /\ sel \in { [kind |-> "select", phase |-> "args", coins |-> CoinsOf(v),
                  targetAmount |-> t, forceChange |-> f, out |-> NoSelection] :
                 v \in SelectValueLists, t \in SelectTargets, f \in BOOLEAN }
              \cup
              { [kind |-> "selectnum", phase |-> "args", coins |-> CoinsOf(v),
                 target |-> t, forceChange |-> f, out |-> NoSelection] :
                v \in SelectValueLists, t \in JsNumbers(SelectTargets), f \in BOOLEAN }

InitPlan ==
    /\ SessionIdle
    /\ sel \in { [kind |-> "plan", phase |-> "loop", coins |-> w, amount |-> a,
                  feeRate |-> r, recipient |-> d, iter |-> 0, fee |-> 0, budget |-> 0,
                  selected |-> NoSelection, out |-> NoSelection] :
                 w \in PlanWallets, a \in PlanAmounts, r \in PlanFeeRates,
                 d \in RecipientScripts }

InitExit ==
    /\ SessionIdle
    /\ sel \in { [kind |-> "exit", phase |-> "args", confirmedAt |-> c, current |-> t,
                  exits |-> x, out |-> 0] :
                 c \in BlockTimes(1), t \in BlockTimes(MaxTip),
                 x \in SeqsUpTo(ExitPaths, MaxExits) }

InitComplete ==
    /\ SessionIdle
    /\ sel \in { [kind |-> "complete", phase |-> "start", wallet |-> w, vtxoTxIds |-> r,
                  chainTip |-> ChainTip, providerFeeRate |-> q, vtxos |-> <<>>, k |-> 0,
                  inputs |-> <<>>, totalAmount |-> 0, estimator |-> EstimatorCreate,
                  outputAmount |-> 0, error |-> "none", broadcasts |-> 0] :
                 w \in VtxoLists, r \in RequestedTxids, q \in CompleteFeeRates }

InitSend ==
    /\ SessionIdle
    /\ sel \in { [kind |-> "send", phase |-> "validate", wallet |-> w, coins |-> <<>>,
                  amount |-> a, paramFeeRate |-> p, providerFeeRate |-> q,
                  feeRate |-> NoFeeRate, recipient |-> d, iter |-> 0, fee |-> 0,
                  budget |-> 0, selected |-> NoSelection, out |-> NoSelection,
                  fetched |-> FALSE, txInputs |-> <<>>, txOutputs |-> <<>>,
                  broadcasts |-> 0] :
                 w \in SendWallets, a \in SendAmounts, p \in SendParamFeeRates,
                 q \in SendProviderFeeRates, d \in RecipientScripts }

InitEstimator ==
    /\ SessionIdle
    /\ sel \in { [kind |-> "estimate", priorInputs |-> n, priorOutputs |-> m,
                  e |-> EstimatorAfter(n, m), before |-> EstimatorAfter(n, m),
                  ops |-> <<>>, measured |-> FALSE, value |-> 0, feeRate |-> 0,
                  fee |-> 0] :
                 n \in PriorInputCounts, m \in PriorOutputCounts }
              \cup
              { [kind |-> "varint", phase |-> "args", n |-> n, out |-> 0] :
                n \in VarIntArgs }

InitBump ==
    /\ SessionIdle
    /\ sel \in { [kind |-> "bump", phase |-> "start", parentVsize |-> v, hasAnchor |-> h,
                  anchorValue |-> a, providerFeeRate |-> q, wallet |-> w,
                  childVsize |-> 0, feeRate |-> NoFeeRate, fee |-> 0,
                  selected |-> NoSelection, childInputs |-> <<>>, childOutputs |-> <<>>,
                  broadcasts |-> 0, accepted |-> FALSE, error |-> "none"] :
                 v \in ParentVsizes, h \in BOOLEAN, a \in AnchorValues,
                 q \in BumpFeeRates, w \in BumpWallets }

Init ==
    /\ InitSession
    /\ sel = Idle

Next ==
    \/ CallNext
    \/ Probe
    \/ FetchVirtualTx
    \/ BumpSubmit
    \/ BumpReturn
    \/ DoDone
    \/ DoUnroll
    \/ DoWaitPoll
    \/ Yield
    \/ Sleep
    \/ DoAgain
    \/ Restart
    \/ ExternalBroadcast
    \/ Confirm

Spec == Init /\ [][Next]_vars

\* the providers have answered and the explorer has accepted what was
\* submitted: no call has failed
Answered == pc # "failed" /\ lastAns # "error" /\ subm # "rejected"

\* a run of the iterator in which every call made is answered and every
\* package built and accepted
IteratorRuns ==
    \/ CallNext
    \/ (Probe /\ Answered')
    \/ (FetchVirtualTx /\ Answered')
    \/ (BumpSubmit /\ Answered')
    \/ BumpReturn
    \/ DoDone
    \/ (DoUnroll /\ Answered')
    \/ (DoWaitPoll /\ Answered')
    \/ Yield
    \/ Sleep

NextLive ==
    \/ IteratorRuns
    \/ Confirm

\* the event loop runs every continuation of the iterator that is ready, and
\* the chain confirms every transaction of the mempool
SpecLive == Init /\ [][NextLive]_vars /\ WF_vars(IteratorRuns) /\ WF_vars(Confirm)

NextSelect ==
    \/ SelectCall
    \/ SelectCallAnyNumber

SpecSelect == InitSelect /\ [][NextSelect]_vars

NextPlan ==
    \/ PlanIterate
    \/ PlanExhausted

SpecPlan == InitPlan /\ [][NextPlan]_vars

NextSend ==
    \/ SendValidate
    \/ SendFetch
    \/ PlanIterate
    \/ PlanExhausted
    \/ SendBuild
    \/ SendBroadcast

SpecSend == InitSend /\ [][NextSend]_vars

NextComplete ==
    \/ CompletePrepare
    \/ CompleteVtxo
    \/ CompleteFee
    \/ CompleteBroadcast

SpecComplete == InitComplete /\ [][NextComplete]_vars

NextExit == ExitCall

SpecExit == InitExit /\ [][NextExit]_vars

\* the wallet's operations together: selectCoins called directly and send()
InitWallet == InitSelect \/ InitSend

NextWallet ==
    \/ SelectCall
    \/ SelectCallAnyNumber
    \/ SendValidate
    \/ SendFetch
    \/ PlanIterate
    \/ PlanExhausted
    \/ SendBuild
    \/ SendBroadcast

SpecWallet == InitWallet /\ [][NextWallet]_vars

NextBump ==
    \/ BumpFee
    \/ BumpSelect
    \/ BumpBroadcast

SpecBump == InitBump /\ [][NextBump]_vars

NextEstimator ==
    \/ EstAddP2AInput
    \/ EstAddKeySpendInput
    \/ EstAddP2PKHInput
    \/ EstAddTapscriptInput
    \/ EstAddP2WPKHOutput
    \/ EstAddP2TROutput
    \/ EstAddOutputAddress
    \/ EstVsize
    \/ VarIntCall

SpecEstimator == InitEstimator /\ [][NextEstimator]_vars

\* ========================================================================
\* Properties
\* ========================================================================
\* the nodes the transition rule never asks about, as the specification names them
ClaimSkipped(chainTx) == chainTx.type \in {"COMMITMENT", "UNSPECIFIED"}

ClaimProbed == { k \in 1..Len(toUnroll.chain) : ~ClaimSkipped(toUnroll.chain[k]) }

AllConfirmed == \A k \in ClaimProbed : onchain[k] = "confirmed"

\* next() has just returned a step
JustReturned == ev.kind = "return"

\* C1: for every coin list and target with 0 <= target <= sum of the coins,
\* selectCoins returns inputs that sum to at least target, to strictly more
\* than target when forceChange is set, with changeAmount = sum(inputs) - target.
\* Stated here for the positive targets (a target of 0 returns the empty
\* selection before forceChange is looked at).
C1_SelectCoversTarget ==
    (/\ sel.kind = "select"
     /\ sel.phase = "done"
     /\ 0 < sel.targetAmount
     /\ sel.targetAmount <= SumValues(sel.coins))
    => /\ sel.out.error = "none"
       /\ SumValues(sel.out.inputs) >= sel.targetAmount
       /\ (sel.forceChange => SumValues(sel.out.inputs) > sel.targetAmount)
       /\ sel.out.changeAmount = SumValues(sel.out.inputs) - sel.targetAmount

\* some selection covers the amount plus the fee of the transaction it makes:
\* the n largest coins pay for n inputs and the payment output
Feasible(coins, amount, feeRate, recipient) ==
    \E n \in 1..Len(coins) :
        SumValues(SubSeq(SortDesc(coins), 1, n)) >=
            amount + RoundedFee(vsize(addOutputAddress(AddKeySpendInputs(EstimatorCreate, n),
                                                       recipient)), feeRate)

\* C2: for any feasible coin set, estimateFeesAndSelectCoins returns a result
\* within 10 iterations and never fails with "could not converge".
C2_FeasibleConverges ==
    (/\ sel.kind = "plan"
     /\ Feasible(sel.coins, sel.amount, sel.feeRate, sel.recipient))
    => /\ sel.iter <= MAX_ITERATIONS
       /\ ~(sel.phase = "thrown"
            /\ sel.out.error = "Fee estimation failed: could not converge")

\* C3: next() returns UNROLL only for the first node, scanning from the root
\* and skipping COMMITMENT/UNSPECIFIED nodes, whose status lookup reports not
\* found; every non-skipped node closer to the root is then confirmed on-chain.
C3_UnrollOnlyWhenNotFound ==
    (JustReturned /\ step.type = "UNROLL")
    => /\ lastAns = "notfound"
       /\ step.txid \in ClaimProbed
       /\ \A k \in ClaimProbed : k > step.txid => onchain[k] = "confirmed"

\* C4: next() returns DONE exactly when the lookup of every node that is
\* neither COMMITMENT nor UNSPECIFIED answered "confirmed" (also when there is
\* no such node); all these nodes are then confirmed on-chain and the step's
\* vtxoTxid is the outpoint's txid; and a call made when all of them are
\* confirmed, whose lookups are all answered, returns DONE.
C4_DoneIffAllConfirmed ==
    JustReturned
    => /\ (step.type = "DONE") <=>
              (queried = ClaimProbed /\ lastAns \in {"none", "confirmed"})
       /\ (step.type = "DONE") => (AllConfirmed /\ step.txid = toUnroll.txid)
       /\ (stable /\ AllConfirmed /\ lastAns # "error") => step.type = "DONE"

\* C4 witness: DONE is returned for a chain with two probed nodes right after
\* the iterator yielded an UNROLL step
C4_Witness ==
    /\ JustReturned
    /\ step.type = "DONE"
    /\ lastStep = "UNROLL"
    /\ Cardinality(ClaimProbed) = 2
    /\ step.txid # 1

\* C5: next() returns WAIT(txid) exactly when the scan from the root, which
\* never asks for the status of a COMMITMENT/UNSPECIFIED node, reaches a node
\* answered "found, unconfirmed" before any not-found node; txid is that
\* node's and no node further toward the leaf has been asked about.
C5_WaitIffUnconfirmedFirst ==
    /\ queried \subseteq ClaimProbed
    /\ JustReturned
       => /\ (step.type = "WAIT") <=> (lastAns = "unconfirmed")
          /\ (step.type = "WAIT")
             => /\ step.txid \in ClaimProbed
                /\ toUnroll.chain[step.txid].txid = step.txid
                /\ queried = { k \in ClaimProbed : k >= step.txid }
                /\ \A k \in queried : k # step.txid => onchain[k] = "confirmed"
                /\ onchain[step.txid] = "mempool"

\* C5 witness: WAIT is returned for the leaf after the scan passed a confirmed node
C5_Witness ==
    /\ JustReturned
    /\ step.type = "WAIT"
    /\ step.txid = 1
    /\ Cardinality(queried) = 2

\* C6: only a NotFound answer makes a node the next to broadcast; any other
\* failure of getTxStatus rejects next(): no step, nothing built or broadcast.
C6_OtherErrorsPropagate ==
    (lastAns = "error") => (pc = "failed" /\ cand = 0 /\ step = NoStep)

\* C7: bumpP2A never returns the package as a normal result after the
\* submission of the package failed.
C7_FailedSubmissionSurfaces ==
    (JustReturned /\ step.type = "UNROLL") => ev.ok

\* C8: a new session created from the same outpoint after an abandoned one,
\* driven to DONE, has every chain transaction on-chain and never broadcasts
\* a transaction that is already in the mempool or confirmed (no other party
\* having changed a status since the call that chose the transaction began).
C8_ResumeNeverRebroadcasts ==
    resumed
    => /\ (stable /\ ev.kind \in {"submit", "dosubmit"}) => ev.was = "offchain"
       /\ (pc = "ended") => AllConfirmed

\* the step the transition rule of the specification derives from the chain
\* and the on-chain statuses alone
RECURSIVE Derived(_, _, _)
Derived(u, oc, k) ==
    IF k < 1 THEN [type |-> "DONE", txid |-> u.txid]
    ELSE IF ClaimSkipped(u.chain[k]) THEN Derived(u, oc, k - 1)
    ELSE IF oc[k] = "confirmed" THEN Derived(u, oc, k - 1)
    ELSE IF oc[k] = "mempool" THEN [type |-> "WAIT", txid |-> u.chain[k].txid]
    ELSE [type |-> "UNROLL", txid |-> u.chain[k].txid]

\* C9: two next() calls under the same on-chain statuses return a step of the
\* same type for the same txid: the step is the one derived from the chain and
\* the statuses, whatever happened in earlier calls.
C9_StepDerivedFromStatus ==
    /\ (JustReturned /\ stable /\ step.type \in {"WAIT", "DONE"})
       => step = Derived(toUnroll, onchain, Len(toUnroll.chain))
    /\ (pc = "fetch" /\ ev.kind = "query" /\ stable)
       => UnrollStep(toUnroll.chain[cand]) = Derived(toUnroll, onchain, Len(toUnroll.chain))

\* a step of the driving loop or of the call it is waiting for
IteratorStep ==
    \/ CallNext \/ Probe \/ FetchVirtualTx \/ BumpSubmit \/ BumpReturn
    \/ DoDone \/ DoUnroll \/ DoWaitPoll \/ Yield \/ Sleep

\* C10: the iterator yields DONE at most once and as its last element, does
\* nothing after yielding it, and ends for no step type other than DONE.
C10_DoneIsTerminal ==
    /\ doneYields => pc = "ended"
    /\ (pc = "ended") => (lastStep = "DONE" /\ doneYields /\ ~ENABLED IteratorStep)
    /\ (ev.kind = "yield" /\ ev.was = "DONE") => (~ev.ok /\ pc = "ended")
    /\ (ev.kind = "yield" /\ ev.was # "DONE") => pc = "sleep"

\* C10 witness: the iterator ended after an UNROLL and a DONE step were yielded
C10_Witness ==
    /\ pc = "ended"
    /\ doneYields
    /\ ClaimProbed # {}
    /\ ~resumed

\* send() has run the planner: at least one pass of the loop was made
SendPlanned == sel.kind = "send" /\ sel.selected # NoSelection

InvalidTarget(t) == t.kind # "integer" \/ t.floor < 0

\* C12: selectCoins fails with an InvalidAmount error (its "is NaN" or "is
\* negative" error) whenever the target is negative or is not a finite integer
\* (NaN, infinite or fractional), before selecting any coin.
C12_InvalidAmount ==
    (sel.kind = "selectnum" /\ sel.phase = "done" /\ InvalidTarget(sel.target))
    => sel.out.error \in {"Target amount is NaN", "Target amount is negative"}

\* a pass of the planner inside send() that selected as many inputs as the
\* pass before it and leaves a change below the dust limit
DustBoundaryPass ==
    /\ sel.kind = "send"
    /\ sel.phase = "loop"
    /\ sel.iter > 0
    /\ MoreIterations(sel.iter)
    /\ sel' # sel
    /\ sel'.selected.error = "none"
    /\ Len(sel'.selected.inputs) = Len(sel.selected.inputs)
    /\ sel'.selected.changeAmount < DUST_AMOUNT

NoChangeVsize(n, recipientScriptLen) ==
    vsize(addOutputAddress(AddKeySpendInputs(EstimatorCreate, n), recipientScriptLen))

WaitElapsed == ticks * POLL_INTERVAL_MS

\* C15: the action of a WAIT step asks for the status of its txid once per
\* 5-second tick; it resolves only after a poll answered confirmed (so not
\* before the first tick), rejects as soon as a poll fails, polls no more once
\* it resolved or rejected, and is still pending after every poll that
\* answered unconfirmed.
C15_WaitPollsUntilConfirmed ==
    /\ (ev.kind = "poll")
       => /\ step.type = "WAIT" /\ ev.tx = step.txid
          /\ ticks >= 1
          /\ (pc = "yield") <=> (ev.ok /\ ev.was = "confirmed")
          /\ (pc = "failed") <=> ~ev.ok
          /\ (pc = "do") <=> (ev.ok /\ ev.was # "confirmed")
          /\ (pc # "do") => ~ENABLED DoWaitPoll
    /\ (pc = "yield" /\ step.type = "WAIT")
       => /\ WaitElapsed >= 5000
          /\ onchain[step.txid] = "confirmed"
    /\ (pc = "do" /\ step.type = "WAIT") => ENABLED DoWaitPoll

\* C15 witness: the action resolved at its second tick or later, the polls
\* before having answered unconfirmed
C15_Witness ==
    /\ ev.kind = "poll"
    /\ pc = "yield"
    /\ ticks >= 2
    /\ ev.was = "confirmed"

ClaimMatured(confirmedAt, tip, path) ==
    \/ path.type = "blocks" /\ tip.height >= confirmedAt.height + path.value
    \/ path.type = "seconds" /\ tip.time >= confirmedAt.time + path.value

\* C17: availableExitPath returns the first exit path, in declared order,
\* whose relative timelock has matured (blocks: tip.height >= confirmedAt.height
\* + locktime, whatever the time; seconds: tip.time >= confirmedAt.time +
\* locktime); it returns none when no path has matured and never an unmatured one.
C17_FirstMaturedExit ==
    (sel.kind = "exit" /\ sel.phase = "done")
    => /\ sel.out \in 0..Len(sel.exits)
       /\ (sel.out = 0)
          <=> (\A k \in 1..Len(sel.exits) :
                  ~ClaimMatured(sel.confirmedAt, sel.current, sel.exits[k]))
       /\ (sel.out # 0)
          => /\ ClaimMatured(sel.confirmedAt, sel.current, sel.exits[sel.out])
             /\ \A k \in 1..(sel.out - 1) :
                   ~ClaimMatured(sel.confirmedAt, sel.current, sel.exits[k])

\* C17 witness: a blocks path declared before a seconds path; the tip is below
\* the height the first needs and exactly at the time the second needs, so the
\* second is returned
C17_Witness ==
    /\ sel.kind = "exit"
    /\ sel.phase = "done"
    /\ Len(sel.exits) = 2
    /\ sel.exits[1].type = "blocks"
    /\ sel.exits[2].type = "seconds"
    /\ sel.current.height < sel.confirmedAt.height + sel.exits[1].value
    /\ sel.current.time = sel.confirmedAt.time + sel.exits[2].value
    /\ sel.out = 2

\* the vtxos of the wallet whose txid was requested
Targeted == { k \in 1..Len(sel.wallet) : sel.wallet[k].txid \in sel.vtxoTxIds }

\* the first exit path of a vtxo that has matured at the chain tip, 0 for none
RECURSIVE ClaimFirstMatured(_, _)
ClaimFirstMatured(exits, k) ==
    IF k > Len(exits) THEN 0
    ELSE IF ClaimMatured(ConfirmedAt, sel.chainTip, exits[k]) THEN k
    ELSE ClaimFirstMatured(exits, k + 1)

\* the vtxo cannot be swept yet
NotSweepable(vtxo) ==
    \/ ~vtxo.isUnrolled
    \/ ~vtxo.confirmed
    \/ ClaimFirstMatured(vtxo.exits, 1) = 0

\* C18: completeUnroll fails, and broadcasts nothing, if any targeted VTXO is
\* not marked fully unrolled, if its transaction is not confirmed, or if none
\* of its exit paths has matured; when it succeeds every targeted VTXO is an
\* input that spends the first matured exit path of that VTXO.
C18_CompleteUnrollChecks ==
    (sel.kind = "complete")
    => /\ (\E k \in Targeted : NotSweepable(sel.wallet[k]))
          => /\ sel.phase \in {"start", "loop", "thrown"}
             /\ sel.broadcasts = 0
             /\ (sel.phase = "loop") => ENABLED CompleteVtxo
       /\ (sel.phase \in {"signed", "sent"})
          => /\ { sel.inputs[j].txid : j \in 1..Len(sel.inputs) }
                = { sel.wallet[k].txid : k \in Targeted }
             /\ Len(sel.inputs) = Cardinality(Targeted)
             /\ \A j \in 1..Len(sel.inputs) :
                   /\ sel.inputs[j].exit # 0
                   /\ sel.inputs[j].exit =
                        ClaimFirstMatured(sel.wallet[sel.inputs[j].txid].exits, 1)
       /\ (sel.phase = "thrown" /\ sel.error # "broadcast failed") => sel.broadcasts = 0

\* C18 witness: two vtxos were swept, the first by the second of its exit
\* paths (its first has not matured), the second by the first of its two
\* matured paths
C18_Witness ==
    /\ sel.kind = "complete"
    /\ sel.phase = "sent"
    /\ sel.broadcasts = 1
    /\ Len(sel.inputs) = 2
    /\ sel.inputs[1].exit = 2
    /\ sel.inputs[2].exit = 1

\* C19: completeUnroll / prepareUnrollTransaction throws when a requested
\* txid is not found among the wallet's VTXOs, for every requested txid and
\* not only when none of them is found.
C19_EveryTxidMustBeFound ==
    (/\ sel.kind = "complete"
     /\ \E t \in sel.vtxoTxIds : \A k \in 1..Len(sel.wallet) : sel.wallet[k].txid # t)
    => /\ sel.phase \in {"start", "thrown"}
       /\ sel.broadcasts = 0

\* C20: send() rejects with "Amount must be positive" for any amount <= 0 and
\* with "Amount is below dust limit" for any positive amount below 546, in
\* both cases before fetching coins or the fee rate and without building or
\* broadcasting a transaction; no other amount is rejected with these errors.
C20_SendAmountChecks ==
    (sel.kind = "send" /\ sel.phase # "validate")
    => /\ (sel.amount <= 0)
          <=> (sel.phase = "thrown" /\ sel.out.error = "Amount must be positive")
       /\ (0 < sel.amount /\ sel.amount < 546)
          <=> (sel.phase = "thrown" /\ sel.out.error = "Amount is below dust limit")
       /\ (sel.amount < 546)
          => /\ ~sel.fetched
             /\ sel.coins = <<>>
             /\ sel.selected = NoSelection
             /\ sel.txInputs = <<>> /\ sel.txOutputs = <<>>
             /\ sel.broadcasts = 0

\* C20 witness: an amount of 545 was rejected for dust from a wallet that
\* could have paid it
C20_Witness ==
    /\ sel.kind = "send"
    /\ sel.phase = "thrown"
    /\ sel.amount = 545
    /\ sel.out.error = "Amount is below dust limit"
    /\ Len(sel.wallet) = 6
    /\ ~sel.fetched

\* ------------------------------------------------------------------------
\* TxWeightEstimator
\* ------------------------------------------------------------------------
\* the compact-size encoding of Bitcoin: the length in bytes of the encoding of n
CompactSize(n) ==
    IF n < 253 THEN 1
    ELSE IF n <= 65535 THEN 3
    ELSE IF n \div 65536 <= 65535 THEN 5
    ELSE 9

\* the calls of the given names among the add calls made
CallsOf(names) == { k \in 1..Len(sel.ops) : sel.ops[k].op \in names }

InputCalls == {"addP2AInput", "addKeySpendInput", "addP2PKHInput", "addTapscriptInput"}

WitnessInputCalls == {"addKeySpendInput", "addTapscriptInput"}

\* the bytes of the output an add call describes: 8 + varint(len) + len
OutputBytes(op) ==
    CASE op.op = "addP2WPKHOutput" -> 8 + CompactSize(22) + 22
      [] op.op = "addP2TROutput" -> 8 + CompactSize(34) + 34
      [] op.op = "addOutputAddress" -> 8 + CompactSize(op.a) + op.a
      [] OTHER -> 0

RECURSIVE SumOutputBytes(_)
SumOutputBytes(ops) ==
    IF ops = <<>> THEN 0 ELSE OutputBytes(Head(ops)) + SumOutputBytes(Tail(ops))

\* the weight the estimator should report for the calls made on it
ClaimWeight ==
    LET nIn == sel.priorInputs + Cardinality(CallsOf(InputCalls))
        nOut == sel.priorOutputs + Cardinality(CallsOf({"addP2WPKHOutput", "addP2TROutput",
                                                        "addOutputAddress"}))
        scriptSig == (1 + 73 + 1 + 33) * Cardinality(CallsOf({"addP2PKHInput"}))
        outBytes == sel.priorOutputs * (8 + CompactSize(34) + 34) + SumOutputBytes(sel.ops)
        witness == sel.priorInputs > 0 \/ CallsOf(WitnessInputCalls) # {}
    IN 4 * (10 + CompactSize(nIn) + 41 * nIn + scriptSig + CompactSize(nOut) + outBytes)
       + (IF witness THEN 2 + sel.e.inputWitnessSize ELSE 0)

\* C21: for every sequence of add calls, vsize().value is ceil(weight / 4), the
\* weight being 4 * (10 + varint(inputs) + 41 per input + scriptSig bytes +
\* varint(outputs) + output bytes) plus 2 + the witness bytes when an input with
\* a witness was added, and fee(rate) is rate * value
C21_VsizeFormula ==
    (sel.kind = "estimate" /\ sel.measured)
        => /\ sel.value = (ClaimWeight + 3) \div 4
           /\ sel.fee = sel.feeRate * sel.value

\* the add call made last on the estimator
LastCall == sel.ops[Len(sel.ops)]

\* the estimator has just been changed by the add call of this name
JustAdded(name) == sel.kind = "estimate" /\ sel.ops # <<>> /\ LastCall.op = name

\* C22: vsize never decreases: after any add call (key-spend, P2A, P2PKH or
\* tapscript input, or an output) vsize().value is at least what it was before
\* the call, whatever the estimator held before
C22_VsizeMonotone ==
    (sel.kind = "estimate" /\ sel.ops # <<>>) => vsize(sel.e) >= vsize(sel.before)

\* an input with a witness has been added to an estimator that held witness
\* bytes but no input with a witness, and the vsize has grown
C22_Witness ==
    /\ JustAdded("addKeySpendInput")
    /\ ~sel.before.hasWitness
    /\ sel.before.inputWitnessSize > 0
    /\ vsize(sel.e) > vsize(sel.before)

\* C23: a Taproot destination (34-byte script) adds 43 bytes and a native-segwit
\* one (22-byte script) 31, so with the same calls before it the vsize, and the
\* fee at any equal positive rate, are strictly larger for the Taproot one
C23_TaprootLargerThanSegwit ==
    (JustAdded("addOutputAddress") /\ LastCall.a = 34)
        => LET segwit == addOutputAddress(sel.before, 22)
           IN /\ sel.e.outputSize - sel.before.outputSize = 43
              /\ segwit.outputSize - sel.before.outputSize = 31
              /\ vsize(sel.e) > vsize(segwit)
              /\ \A rate \in EstFeeRates \ {0} :
                    VsizeFee(vsize(sel.e), rate) > VsizeFee(vsize(segwit), rate)
              /\ sel.measured
                    => (sel.value > vsize(segwit)
                        /\ (sel.feeRate > 0
                              => sel.fee > VsizeFee(vsize(segwit), sel.feeRate)))

\* a Taproot destination has been added after inputs with a witness, and the
\* estimator has been measured at a positive rate
C23_Witness ==
    /\ JustAdded("addOutputAddress")
    /\ LastCall.a = 34
    /\ sel.before.hasWitness
    /\ sel.measured
    /\ sel.feeRate > 0

\* C24: the size getVarIntSize returns is the compact-size one for every n:
\* 1 byte below 0xfd, 3 bytes up to 0xffff, 5 bytes up to 0xffffffff, 9 above
C24_VarIntIsCompactSize ==
    (sel.kind = "varint" /\ sel.phase = "done") => sel.out = CompactSize(sel.n)

\* C25: addKeySpendInput adds 64 witness bytes for a default sighash and 65 for
\* another one, adds the 41 bytes of an input, increments the input count and
\* marks the estimator as holding a witness
C25_KeySpendInput ==
    JustAdded("addKeySpendInput")
        => /\ sel.e.inputWitnessSize - sel.before.inputWitnessSize
                = (IF LastCall.a = 1 THEN 64 ELSE 65)
           /\ sel.e.inputSize - sel.before.inputSize = 41
           /\ sel.e.inputCount = sel.before.inputCount + 1
           /\ sel.e.hasWitness

\* ------------------------------------------------------------------------
\* bumpP2A
\* ------------------------------------------------------------------------
\* the fee a package of this size has to pay at the provider's rate, which
\* counts for at least 1 sat/vbyte
ClaimPackageFee(parentVsize, childVsize, rate) ==
    LET floored == IF rate.num < rate.den THEN [num |-> 1, den |-> 1] ELSE rate
    IN ((parentVsize + childVsize) * floored.num + floored.den - 1) \div floored.den

\* C26: the child bumpP2A builds pays exactly ceil(rate * (parentVsize +
\* childVsize)), the rate being at least 1 sat/vbyte: its inputs are the anchor
\* output and the coins selected with forceChange for that fee, its single
\* output is anchorValue + change with change > 0, and bumpP2A fails instead
\* when the fee rounds to zero
C26_BumpPaysPackageFee ==
    (sel.kind = "bump" /\ sel.phase \in {"built", "returned"})
        => LET fee == ClaimPackageFee(sel.parentVsize, ChildVsize, sel.providerFeeRate)
               change == sel.selected.changeAmount
           IN /\ fee > 0
              /\ sel.selected = selectCoins(sel.wallet, fee, TRUE)
              /\ sel.childInputs = <<AnchorInput(sel.anchorValue)>> \o sel.selected.inputs
              /\ sel.childOutputs = <<sel.anchorValue + change>>
              /\ SumValues(sel.childInputs) - sel.childOutputs[1] = fee
              /\ change > 0

\* ------------------------------------------------------------------------
\* selectCoins: the order of the selection
\* ------------------------------------------------------------------------
\* coin a comes before coin b in descending order of value, coins of equal
\* value keeping the order of the caller's list (txid is the position in it)
Before(a, b) == a.value > b.value \/ (a.value = b.value /\ a.txid < b.txid)

\* the stopping rule on a sum
ClaimEnough(sum, target, forceChange) ==
    IF forceChange THEN sum > target ELSE sum >= target

\* selectCoins returns a selection in this step
SelectReturns ==
    /\ sel.kind = "select"
    /\ sel.phase = "args"
    /\ sel'.phase = "done"
    /\ sel'.out.error = "none"

\* C27: selectCoins takes the coins in descending order of value (equal values
\* in input order) and returns the shortest prefix of that order whose sum
\* meets the stopping rule (sum >= target, sum > target with forceChange): no
\* selected coin is smaller than an unselected one, without its last coin the
\* selection would not meet the rule, and the caller's list is not modified
C27_GreedyDescendingPrefix ==
    [][SelectReturns
        => LET ins == sel'.out.inputs
               chosen == { ins[k] : k \in 1..Len(ins) }
               all == { sel.coins[k] : k \in 1..Len(sel.coins) }
               sum == SumValues(ins)
           IN /\ chosen \subseteq all
              /\ Cardinality(chosen) = Len(ins)
              /\ \A j, k \in 1..Len(ins) : j < k => Before(ins[j], ins[k])
              /\ \A c \in chosen : \A u \in all \ chosen : Before(c, u)
              /\ ClaimEnough(sum, sel.targetAmount, sel.forceChange)
              /\ ins # <<>> => ~ClaimEnough(sum - ins[Len(ins)].value, sel.targetAmount,
                                            sel.forceChange)
              /\ sel'.coins = sel.coins]_vars

\* ------------------------------------------------------------------------
\* estimateFeesAndSelectCoins: the fee budget
\* ------------------------------------------------------------------------
\* an iteration of the loop runs in this step and its selection succeeds
PlanPass ==
    /\ sel.kind = "plan"
    /\ sel.phase = "loop"
    /\ sel.iter < 10
    /\ sel'.selected.error = "none"

\* the fee of the transaction a selection describes, ceil(vsize * feeRate)
RecomputedFee(selected) ==
    LET vs == vsize(PlanEstimate(selected, sel.recipient))
    IN (vs * sel.feeRate.num + sel.feeRate.den - 1) \div sel.feeRate.den

\* C28: in estimateFeesAndSelectCoins the fee budget starts at 0 and strictly
\* increases from an iteration to the next, the number of selected inputs
\* never decreases, and the loop returns at the first iteration whose
\* recomputed fee ceil(vsize * feeRate) does not exceed the budget its
\* selection was made for, with that selection and the recomputed fee
C28_FeeBudgetIncreases ==
    [][PlanPass
        => /\ sel.iter = 0 => sel.fee = 0
           /\ sel'.selected = selectCoins(sel.coins, sel.amount + sel.fee, FALSE)
           /\ sel.iter > 0 => Len(sel'.selected.inputs) >= Len(sel.selected.inputs)
           /\ IF RecomputedFee(sel'.selected) <= sel.fee
                THEN /\ sel'.phase = "returned"
                     /\ sel'.out = sel'.selected
                     /\ sel'.fee = RecomputedFee(sel'.selected)
                ELSE /\ sel'.phase = "loop"
                     /\ sel'.iter = sel.iter + 1
                     /\ sel'.fee > sel.fee]_vars

\* the loop has returned in its third iteration or later, after the budget
\* and the number of inputs have grown
C28_Witness ==
    /\ sel.kind = "plan"
    /\ sel.phase = "returned"
    /\ sel.iter >= 2
    /\ sel.budget > 0
    /\ Len(sel.out.inputs) >= 2
    /\ sel.fee <= sel.budget

\* ------------------------------------------------------------------------
\* send(): the value of the transaction built
\* ------------------------------------------------------------------------
RECURSIVE SumAmounts(_)
SumAmounts(amounts) ==
    IF amounts = <<>> THEN 0 ELSE Head(amounts) + SumAmounts(Tail(amounts))

\* the fee a built transaction pays: its inputs minus its outputs
FeePaid == SumValues(sel.txInputs) - SumAmounts(sel.txOutputs)

\* the estimated vsize of the transaction as built: a key-spend input per
\* input, the recipient's output and the change output when there is one
BuiltVsize ==
    LET withPayment == addOutputAddress(AddKeySpendInputs(EstimatorCreate, Len(sel.txInputs)),
                                        sel.recipient)
    IN vsize(IF Len(sel.txOutputs) > 1
               THEN addOutputAddress(withPayment, P2TR_OUTPUT_SIZE)
               ELSE withPayment)

\* C29: a transaction built by send() conserves value and never underpays: the
\* inputs sum to the amount, plus the change output when there is one, plus the
\* fee paid, and the fee paid is at least ceil(feeRate * vsize) for the inputs
\* and outputs the transaction really has, at a fee rate of at least 1 sat/vbyte
C29_SendConservesValue ==
    (sel.kind = "send" /\ sel.phase \in {"built", "sent"})
        => /\ sel.txInputs # <<>>
           /\ sel.txOutputs[1] = sel.amount
           /\ Len(sel.txOutputs) \in {1, 2}
           /\ Len(sel.txOutputs) = 2 => sel.txOutputs[2] = sel.out.changeAmount
           /\ SumValues(sel.txInputs)
                = sel.amount + (IF Len(sel.txOutputs) = 2 THEN sel.txOutputs[2] ELSE 0)
                  + FeePaid
           /\ sel.feeRate.num >= sel.feeRate.den
           /\ FeePaid * sel.feeRate.den >= BuiltVsize * sel.feeRate.num

\* a transaction with several inputs and a change output has been broadcast;
\* it pays the fee budget its coins were selected for
C29_Witness ==
    /\ sel.kind = "send"
    /\ sel.phase = "sent"
    /\ Len(sel.txInputs) >= 2
    /\ Len(sel.txOutputs) = 2
    /\ FeePaid = sel.budget

\* ------------------------------------------------------------------------
\* Unroll.Session: submissions of an UNROLL step's package
\* ------------------------------------------------------------------------
\* next() has just returned an UNROLL step: bumpP2A has built its package and
\* sent it to the explorer
PackageSubmittedByNext == JustReturned /\ step.type = "UNROLL"

\* C30: driven by the iterator, the [parent, child] package of a yielded UNROLL
\* step is submitted to the explorer exactly once: having been submitted while
\* next() built the step, it is not submitted again when the step's action runs
C30_PackageSubmittedOnce ==
    [][PackageSubmittedByNext
        => ~(ev'.kind = "dosubmit" /\ ev'.tx = step.txid)]_vars

\* ------------------------------------------------------------------------
\* bumpP2A: the fee of the child as built
\* ------------------------------------------------------------------------
\* the estimated vsize of the child as built: the anchor input, a key-spend
\* input per wallet coin and the one output to the wallet's address
BuiltChildVsize ==
    vsize(addOutputAddress(addP2AInput(AddKeySpendInputs(EstimatorCreate,
                                                         Len(sel.childInputs) - 1)),
                           P2TR_OUTPUT_SIZE))

\* the fee the child pays: its inputs minus its output
ChildFeePaid == SumValues(sel.childInputs) - sel.childOutputs[1]

\* C32: the fee paid by the child bumpP2A builds is at least rate *
\* (parentVsize + estimated vsize of the child as built), however many wallet
\* coins the selection adds as inputs
C32_ChildFeeCoversPackage ==
    (sel.kind = "bump" /\ sel.phase \in {"built", "returned"})
        => ChildFeePaid * sel.feeRate.den
             >= (sel.parentVsize + BuiltChildVsize) * sel.feeRate.num

\* ------------------------------------------------------------------------
\* prepareUnrollTransaction: the transaction built
\* ------------------------------------------------------------------------
\* the estimator after n tapscript inputs of the vtxos' exit leaf
RECURSIVE AddTapscriptInputs(_, _)
AddTapscriptInputs(e, n) ==
    IF n = 0 THEN e
    ELSE AddTapscriptInputs(addTapscriptInput(e, LEAF_WITNESS_SIZE, LeafScriptSize,
                                               LeafControlBlockSize), n - 1)

\* the sum of the values of the targeted vtxos
RECURSIVE SumTargeted(_)
SumTargeted(ks) ==
    IF ks = {} THEN 0
    ELSE LET k == CHOOSE x \in ks : TRUE
         IN sel.wallet[k].value + SumTargeted(ks \ {k})

\* estimated vsize * max(rate, 1) for a sweep of the targeted vtxos
ClaimSweepFee ==
    LET vs == vsize(addP2TROutput(AddTapscriptInputs(EstimatorCreate, Cardinality(Targeted))))
        rate == sel.providerFeeRate.num \div sel.providerFeeRate.den
    IN vs * (IF rate > 1 THEN rate ELSE 1)

\* C33: the transaction prepareUnrollTransaction builds has one input per
\* targeted vtxo and one output worth the sum of the targeted values minus the
\* fee, the fee being estimated vsize * max(rate, 1); when the fee exceeds
\* that sum it fails without signing or broadcasting, so the output value is
\* never negative
C33_SweepOutput ==
    (sel.kind = "complete")
        => /\ (sel.phase \in {"signed", "sent"}
                \/ (sel.phase = "thrown" /\ sel.error = "broadcast failed"))
               => /\ Len(sel.inputs) = Cardinality(Targeted)
                  /\ \A k \in Targeted :
                        \E j \in 1..Len(sel.inputs) : sel.inputs[j].txid = sel.wallet[k].txid
                  /\ sel.totalAmount = SumTargeted(Targeted)
                  /\ sel.outputAmount = SumTargeted(Targeted) - ClaimSweepFee
                  /\ sel.outputAmount >= 0
           /\ (sel.phase = "thrown" /\ sel.error = "fee amount is greater than the total amount")
               => /\ ClaimSweepFee > SumTargeted(Targeted)
                  /\ sel.broadcasts = 0
                  /\ ~ENABLED CompleteBroadcast

\* two vtxos have been swept into one output at the minimum rate, the
\* provider's rate being below it
C33_Witness ==
    /\ sel.kind = "complete"
    /\ sel.phase = "sent"
    /\ Len(sel.inputs) = 2
    /\ sel.providerFeeRate = [num |-> 1, den |-> 2]
    /\ sel.outputAmount > 0
    /\ sel.outputAmount < sel.totalAmount

\* ------------------------------------------------------------------------
\* Unroll.Session: the iterator reaches DONE
\* ------------------------------------------------------------------------
\* the chain transactions on the root side of node k are confirmed and those
\* on its leaf side have not been broadcast
InRootToLeafOrder(k) ==
    \A j \in ClaimProbed :
        /\ j > k => onchain[j] = "confirmed"
        /\ j < k => onchain[j] = "offchain"

\* C31: when every provider call answers, every submitted package is accepted
\* and every accepted transaction is eventually confirmed, the iterator
\* eventually yields DONE, and by then it has broadcast every chain
\* transaction that was not on-chain, each after the ones on its root side
C31_EventuallyDone ==
    /\ <>doneYields
    /\ [](ev.kind = "submit" => (ev.was = "offchain" /\ InRootToLeafOrder(ev.tx)))
    /\ [](doneYields => AllConfirmed)

\* the iterator has ended with DONE on a chain of two transactions that had
\* to be broadcast
C31_Witness ==
    /\ doneYields
    /\ pc = "ended"
    /\ Cardinality(ClaimProbed) = 2
    /\ AllConfirmed

====
